---- MODULE Spec2Model ----
(***************************************************************************)
(* A model of fs_emulator.c: the in-memory inode table, the storage root   *)
(* (the inodes_list file and one backing file per inode id), the current   *)
(* directory of the session and the command loop of main.                  *)
(*                                                                         *)
(* Files are sequences of cells.  A byte is one cell; the uint32 that      *)
(* fwrite/fread move as four bytes is one cell as well (every read and     *)
(* write of the program moves it whole).  A directory record is therefore  *)
(* 1 + NAME_LEN cells, an inodes_list record 2 cells.                      *)
(*                                                                         *)
(* Every fopen of the program can fail; each call's outcome is an input    *)
(* of the action that makes the call (a BOOLEAN drawn with \E).  An fopen  *)
(* for reading also fails when the file does not exist.                    *)
(***************************************************************************)
EXTENDS Integers, Sequences, FiniteSets, TLC

\* #define MAX_INODES 1024 and #define NAME_LEN 32, scaled down; the model
\* is parametric in both.
MAX_INODES == 3
NAME_LEN == 2

\* Bytes of the program's character constants.
NUL == 0
CH_DOT == 46
CH_A == 97
CH_B == 98
TYPE_D == 100
TYPE_F == 102
TYPE_X == 120

Inodes == 0 .. (MAX_INODES - 1)

VARIABLES
    pc,           \* where main is: "start", "running", "exited", "aborted"
    exit_code,    \* the process's exit status once it ended, else -1
    inode_table,  \* static InodeInfo inode_table[MAX_INODES]
    cwd,          \* main's local uint32_t cwd
    fs,           \* the backing files "0" .. "MAX_INODES-1" of the storage root
    disk,         \* the content of the file inodes_list
    disk0,        \* history: inodes_list as it was when the session started
    nsaves,       \* history: how many times inodes_list was written
    loaded,       \* history: the table as load_inodes_list left it
    created,      \* history: <<index, type, directory, position>> of each
                  \* mkdir/touch that ran to its end: the slot, its type, the
                  \* cwd whose file got the entry and the entry's record number
    last          \* history: the last line processed, its outcome, the state before it

vars == <<pc, exit_code, inode_table, cwd, fs, disk, disk0, nsaves, loaded, created, last>>

----------------------------------------------------------------------------
(* Helpers *)

Min(S) == CHOOSE x \in S : \A y \in S : x <= y

Range(s) == {s[i] : i \in 1 .. Len(s)}

RECURSIVE Flatten(_)
Flatten(ss) == IF ss = <<>> THEN <<>> ELSE Head(ss) \o Flatten(Tail(ss))

\* A command argument as strtok returns it: a non-empty string without NUL.
NameOf(c, n) == [i \in 1 .. n |-> c]
Dot == <<CH_DOT>>
DotDot == <<CH_DOT, CH_DOT>>
LongA == NameOf(CH_A, NAME_LEN + 1)
LongAB == [i \in 1 .. (NAME_LEN + 1) |-> IF i <= NAME_LEN THEN CH_A ELSE CH_B]
Names == {Dot, DotDot, <<CH_A>>, <<CH_B>>, LongA, LongAB}

----------------------------------------------------------------------------
(* make_name32: memset to 0, then strncpy of at most NAME_LEN bytes *)

make_name32(src) == [i \in 1 .. NAME_LEN |-> IF i <= Len(src) THEN src[i] ELSE NUL]

\* The bytes of a NAME_LEN buffer before its first NUL (what "%s" prints of
\* the NUL-terminated copy, and what create_file_inode counts).
RECURSIVE strnlen(_, _)
strnlen(buf, n) ==
    IF n < Len(buf) /\ buf[n + 1] # NUL THEN strnlen(buf, n + 1) ELSE n

Trimmed(buf) == SubSeq(buf, 1, strnlen(buf, 0))

----------------------------------------------------------------------------
(* The inode table *)

FreeSlot == [used |-> 0, type |-> NUL]

\* memset(inode_table, 0, sizeof(inode_table))
ZeroTable == [i \in Inodes |-> FreeSlot]

mark_used(t, i, ty) == [t EXCEPT ![i] = [used |-> 1, type |-> ty]]

\* inode_table[free_i].used = 0 (the type byte stays as it was set)
mark_free(t, i) == [t EXCEPT ![i].used = 0]

\* The table as the program can observe it: a slot's type counts only while
\* the slot is used.
UsedPairs(t) == {<<i, t[i].type>> : i \in {j \in Inodes : t[j].used = 1}}

UsedCount(t) == Cardinality({i \in Inodes : t[i].used = 1})

IsDir(t, i) == i \in Inodes /\ t[i].used = 1 /\ t[i].type = TYPE_D

\* Mutant: the range check off by one, so the last slot is never loaded.
RECURSIVE LoadRecords_OffByOne(_, _)
LoadRecords_OffByOne(t, cells) ==
    IF Len(cells) < 2 THEN t
    ELSE LET index == cells[1]
             type == cells[2]
             rest == SubSeq(cells, 3, Len(cells))
         IN  IF index >= MAX_INODES - 1 THEN LoadRecords_OffByOne(t, rest)
             ELSE IF type # TYPE_D /\ type # TYPE_F THEN LoadRecords_OffByOne(t, rest)
             ELSE LoadRecords_OffByOne(mark_used(t, index, type), rest)

\* Mutant: the first record that is not accepted ends the load.
RECURSIVE LoadRecords_StopsAtInvalid(_, _)
LoadRecords_StopsAtInvalid(t, cells) ==
    IF Len(cells) < 2 THEN t
    ELSE LET index == cells[1]
             type == cells[2]
             rest == SubSeq(cells, 3, Len(cells))
         IN  IF index >= MAX_INODES THEN t
             ELSE IF type # TYPE_D /\ type # TYPE_F THEN t
             ELSE LoadRecords_StopsAtInvalid(mark_used(t, index, type), rest)

\* load_inodes_list's loop: records of (index, type), read until a read
\* comes short; an out-of-range index or an unknown type skips the record.
RECURSIVE LoadRecords(_, _)
LoadRecords(t, cells) ==
    IF Len(cells) < 2 THEN t
    ELSE LET index == cells[1]
             type == cells[2]
             rest == SubSeq(cells, 3, Len(cells))
         IN  IF index >= MAX_INODES THEN LoadRecords(t, rest)
             ELSE IF type # TYPE_D /\ type # TYPE_F THEN LoadRecords(t, rest)
             ELSE LoadRecords(mark_used(t, index, type), rest)

\* save_inodes_list's loop: one record per used slot, i ascending.
RECURSIVE SaveFrom(_, _)
SaveFrom(t, i) ==
    IF i >= MAX_INODES THEN <<>>
    ELSE (IF t[i].used = 1 THEN <<i, t[i].type>> ELSE <<>>) \o SaveFrom(t, i + 1)

\* Mutant: the loop starts at 1, so inode 0 is never written.
SaveRecords_SkipsRoot(t) == SaveFrom(t, 1)

SaveRecords(t) == SaveFrom(t, 0)

\* Mutant: slot 0 is returned when nothing is free.
find_free_inode_NoFailure(t) ==
    IF \E i \in Inodes : t[i].used = 0
    THEN Min({i \in Inodes : t[i].used = 0})
    ELSE 0

\* Mutant: the highest free slot is taken.
find_free_inode_Highest(t) ==
    IF \E i \in Inodes : t[i].used = 0
    THEN CHOOSE i \in Inodes : t[i].used = 0 /\ \A j \in Inodes : t[j].used = 0 => j <= i
    ELSE -1

\* find_free_inode: the first slot not used, or -1.
find_free_inode(t) ==
    IF \E i \in Inodes : t[i].used = 0
    THEN Min({i \in Inodes : t[i].used = 0})
    ELSE -1

----------------------------------------------------------------------------
(* Backing files *)

NoFile == [exists |-> FALSE, data |-> <<>>]
File(cells) == [exists |-> TRUE, data |-> cells]

RecLen == 1 + NAME_LEN

\* The fread loop shared by dir_find and cmd_ls: whole records, in order.
ReadDir(cells) ==
    [k \in 1 .. (Len(cells) \div RecLen) |->
        [inode |-> cells[(k - 1) * RecLen + 1],
         name  |-> SubSeq(cells, (k - 1) * RecLen + 2, k * RecLen)]]

DirRec(inode, name) == <<inode>> \o make_name32(name)

NoEnt == [inode |-> 0, name |-> make_name32(<<>>)]

\* dir_find: 0 when the file cannot be opened or holds no record whose
\* name equals the key, else 1 and the first such record.
dir_find(f, dir_inode, name, opens) ==
    IF ~(opens /\ f[dir_inode].exists) THEN [found |-> 0, ent |-> NoEnt]
    ELSE LET ents == ReadDir(f[dir_inode].data)
             key == make_name32(name)
             hits == {k \in 1 .. Len(ents) : ents[k].name = key}
         IN  IF hits = {} THEN [found |-> 0, ent |-> NoEnt]
             ELSE [found |-> 1, ent |-> ents[Min(hits)]]

\* Mutant: the directory file is opened "wb", losing what it held.
dir_append_Truncates(f, dir_inode, child_inode, name, opens) ==
    IF ~opens THEN [ok |-> 0, fs |-> f]
    ELSE [ok |-> 1,
          fs |-> [f EXCEPT ![dir_inode] = File(DirRec(child_inode, name))]]

\* dir_append: fopen "ab" (creates the file when absent), one record written
\* at the end.
dir_append(f, dir_inode, child_inode, name, opens) ==
    IF ~opens THEN [ok |-> 0, fs |-> f]
    ELSE [ok |-> 1,
          fs |-> [f EXCEPT ![dir_inode] =
                     File(f[dir_inode].data \o DirRec(child_inode, name))]]

\* Mutant: ".." names the new directory itself instead of its parent.
create_dir_inode_NoParent(f, new_inode, parent_inode, opens) ==
    IF ~opens THEN [ok |-> 0, fs |-> f]
    ELSE [ok |-> 1,
          fs |-> [f EXCEPT ![new_inode] =
                     File(DirRec(new_inode, Dot) \o DirRec(new_inode, DotDot))]]

\* create_dir_inode: fopen "wb" (creates or truncates), "." and "..".
create_dir_inode(f, new_inode, parent_inode, opens) ==
    IF ~opens THEN [ok |-> 0, fs |-> f]
    ELSE [ok |-> 1,
          fs |-> [f EXCEPT ![new_inode] =
                     File(DirRec(new_inode, Dot) \o DirRec(parent_inode, DotDot))]]

\* Mutant: success is reported without the file having been created.
create_file_inode_NoFile(f, new_inode, name, opens) ==
    IF ~opens THEN [ok |-> 0, fs |-> f]
    ELSE [ok |-> 1, fs |-> f]

\* create_file_inode: fopen "wb", the name's bytes before the first NUL of
\* its NAME_LEN buffer.
create_file_inode(f, new_inode, name, opens) ==
    IF ~opens THEN [ok |-> 0, fs |-> f]
    ELSE [ok |-> 1,
          fs |-> [f EXCEPT ![new_inode] = File(Trimmed(make_name32(name)))]]

----------------------------------------------------------------------------
(* Storage roots a session starts from *)

\* inodes_list files: records of an index (MAX_INODES itself is out of range)
\* and a type byte (TYPE_X is no recognized tag).
RootOnly == <<0, TYPE_D>>
RootAndFile == <<0, TYPE_D, 1, TYPE_F>>
RootAndGap == <<0, TYPE_D, MAX_INODES - 1, TYPE_D>>
RootAfterJunk == <<MAX_INODES, TYPE_D, 1, TYPE_X, 0, TYPE_D, 0, TYPE_X, 1, TYPE_F>>
FullList == Flatten([i \in 1 .. MAX_INODES |-> <<i - 1, IF i = 2 THEN TYPE_F ELSE TYPE_D>>])
NoRoot == <<1, TYPE_D>>
RootIsFile == <<0, TYPE_F>>
RootOverwritten == <<0, TYPE_D, 0, TYPE_F>>

EntryName(i) == <<CH_A + i - 1>>

RECURSIVE ChildEntries(_, _)
ChildEntries(keep, i) ==
    IF i >= MAX_INODES THEN <<>>
    ELSE (IF i \in keep THEN DirRec(i, EntryName(i)) ELSE <<>>) \o ChildEntries(keep, i + 1)

SelfLinks(i, parent) == DirRec(i, Dot) \o DirRec(parent, DotDot)

ChildFile(ty, i) ==
    IF ty = TYPE_F THEN File(Trimmed(make_name32(EntryName(i)))) ELSE File(SelfLinks(i, 0))

\* "bare": an empty root stream and nothing else.
\* "clean": the root lists every used inode, each with its backing file.
\* "stale": as left by a session that ended without saving the table: the
\*   root lists every inode id, used in the table or not, each with a backing
\*   file, and one entry with an inode id out of range.
Layouts == {"bare", "clean", "stale"}

InitFs(layout, t) ==
    LET usedKids == {i \in Inodes : i > 0 /\ t[i].used = 1}
        allKids == {i \in Inodes : i > 0}
    IN  CASE layout = "bare" ->
               [i \in Inodes |-> IF i = 0 THEN File(<<>>) ELSE NoFile]
          [] layout = "clean" ->
               [i \in Inodes |->
                   IF i = 0 THEN File(SelfLinks(0, 0) \o ChildEntries(usedKids, 1))
                   ELSE IF i \in usedKids THEN ChildFile(t[i].type, i)
                   ELSE NoFile]
          [] OTHER ->
               [i \in Inodes |->
                   IF i = 0
                   THEN File(SelfLinks(0, 0) \o ChildEntries(allKids, 1)
                                \o DirRec(MAX_INODES, LongA))
                   ELSE IF i \in usedKids THEN ChildFile(t[i].type, i)
                   ELSE ChildFile(TYPE_D, i)]

InitRoots ==
    ({RootOnly, RootAndFile, RootAndGap} \X Layouts)
        \cup ({RootAfterJunk, FullList, <<>>, NoRoot, RootIsFile, RootOverwritten}
                 \X {"clean"})

----------------------------------------------------------------------------
(* The session *)

NoLine ==
    [cmd |-> "none", name |-> <<>>, step |-> "none", diag |-> "", free_i |-> -1,
     out |-> <<>>, opened |-> TRUE, pre_table |-> ZeroTable, pre_cwd |-> 0,
     pre_fs |-> [i \in Inodes |-> NoFile]]

\* What a line leaves in the history: the command, its argument, how far it
\* got, its diagnostic, the slot it allocated, ls's output, the state before;
\* opened is FALSE when cd's dir_find could not open cwd's file.
Line(cmd, name, step, diag, free_i, out) ==
    [cmd |-> cmd, name |-> name, step |-> step, diag |-> diag, free_i |-> free_i,
     out |-> out, opened |-> TRUE, pre_table |-> inode_table, pre_cwd |-> cwd, pre_fs |-> fs]

Init ==
    /\ pc = "start"
    /\ exit_code = -1
    /\ inode_table = ZeroTable
    /\ cwd = 0
    /\ \E root \in InitRoots :
          /\ disk = root[1]
          /\ fs = InitFs(root[2], LoadRecords(ZeroTable, root[1]))
    /\ disk0 = disk
    /\ nsaves = 0
    /\ loaded = ZeroTable
    /\ created = <<>>
    /\ last = NoLine

\* Mutant: the session starts whatever slot 0 holds.
Startup_NoRootCheck ==
    /\ pc = "start"
    /\ \E opens \in BOOLEAN :
          LET t == IF opens THEN LoadRecords(ZeroTable, disk) ELSE ZeroTable
          IN  /\ inode_table' = t
              /\ loaded' = t
              /\ IF opens
                 THEN pc' = "running" /\ exit_code' = -1
                 ELSE pc' = "aborted" /\ exit_code' = 1
    /\ cwd' = 0
    /\ UNCHANGED <<fs, disk, disk0, nsaves, created, last>>

\* main, lines 321-328: memset, load_inodes_list (exit(1) when inodes_list
\* cannot be opened), die unless inode 0 is a used directory, cwd = 0.
Startup ==
    /\ pc = "start"
    /\ \E opens \in BOOLEAN :
          LET t == IF opens THEN LoadRecords(ZeroTable, disk) ELSE ZeroTable
          IN  /\ inode_table' = t
              /\ loaded' = t
              /\ IF opens /\ t[0].used = 1 /\ t[0].type = TYPE_D
                 THEN pc' = "running" /\ exit_code' = -1
                 ELSE pc' = "aborted" /\ exit_code' = 1
    /\ cwd' = 0
    /\ UNCHANGED <<fs, disk, disk0, nsaves, created, last>>

\* cmd_ls: prints every record of cwd's file; perror when it cannot be opened.
cmd_ls(opens) ==
    IF ~(opens /\ fs[cwd].exists)
    THEN Line("ls", <<>>, "unopenable", "ls", -1, <<>>)
    ELSE LET ents == ReadDir(fs[cwd].data)
         IN  Line("ls", <<>>, "ok", "", -1,
                  [k \in 1 .. Len(ents) |-> <<ents[k].inode, Trimmed(ents[k].name)>>])

Ls ==
    /\ pc = "running"
    /\ \E opens \in BOOLEAN : last' = cmd_ls(opens)
    /\ UNCHANGED <<pc, exit_code, inode_table, cwd, fs, disk, disk0, nsaves, loaded, created>>

\* Mutant: cd enters whatever used inode the entry names, file or directory.
Cd_NoTypeCheck(name) ==
    /\ pc = "running"
    /\ \E opens \in BOOLEAN :
          LET r == dir_find(fs, cwd, name, opens)
          IN  IF r.found = 0
              THEN /\ last' = [Line("cd", name, "nosuch", "cd: no such directory", -1, <<>>)
                                EXCEPT !.opened = opens /\ fs[cwd].exists]
                   /\ cwd' = cwd
              ELSE IF \/ r.ent.inode >= MAX_INODES
                      \/ inode_table[r.ent.inode].used = 0
              THEN /\ last' = Line("cd", name, "notdir", "cd: not a directory", -1, <<>>)
                   /\ cwd' = cwd
              ELSE /\ last' = Line("cd", name, "ok", "", -1, <<>>)
                   /\ cwd' = r.ent.inode
    /\ UNCHANGED <<pc, exit_code, inode_table, fs, disk, disk0, nsaves, loaded, created>>

\* cmd_cd
Cd(name) ==
    /\ pc = "running"
    /\ \E opens \in BOOLEAN :
          LET r == dir_find(fs, cwd, name, opens)
          IN  IF r.found = 0
              THEN /\ last' = [Line("cd", name, "nosuch", "cd: no such directory", -1, <<>>)
                                EXCEPT !.opened = opens /\ fs[cwd].exists]
                   /\ cwd' = cwd
              ELSE IF \/ r.ent.inode >= MAX_INODES
                      \/ inode_table[r.ent.inode].used = 0
                      \/ inode_table[r.ent.inode].type # TYPE_D
              THEN /\ last' = Line("cd", name, "notdir", "cd: not a directory", -1, <<>>)
                   /\ cwd' = cwd
              ELSE /\ last' = Line("cd", name, "ok", "", -1, <<>>)
                   /\ cwd' = r.ent.inode
    /\ UNCHANGED <<pc, exit_code, inode_table, fs, disk, disk0, nsaves, loaded, created>>

\* Lines 273-279 and 295-301: the slot is marked used, the backing file is
\* created and, only when that worked, the entry is appended to cwd's file;
\* either failing frees the slot again.  made is what create_dir_inode or
\* create_file_inode returned.
\* Mutant: the slot stays used after a failed creation.
Rollback_Missing(t, free_i) == t

\* Mutant: the rollback frees slot 0 instead of the slot it allocated.
Rollback_WrongSlot(t, free_i) == mark_free(t, 0)

Rollback(t, free_i) == mark_free(t, free_i)

Commit(cmd, name, free_i, ty, made) ==
    LET marked == mark_used(inode_table, free_i, ty)
    IN  IF made.ok = 0
        THEN /\ inode_table' = Rollback(marked, free_i)
             /\ fs' = made.fs
             /\ created' = created
             /\ last' = Line(cmd, name, "create_failed", "", free_i, <<>>)
        ELSE \E appends \in BOOLEAN :
               LET app == dir_append(made.fs, cwd, free_i, name, appends)
               IN  IF app.ok = 0
                   THEN /\ inode_table' = Rollback(marked, free_i)
                        /\ fs' = app.fs
                        /\ created' = created
                        /\ last' = Line(cmd, name, "append_failed", "", free_i, <<>>)
                   ELSE /\ inode_table' = marked
                        /\ fs' = app.fs
                        /\ created' = Append(created,
                               <<free_i, ty, cwd, Len(ReadDir(app.fs[cwd].data))>>)
                        /\ last' = Line(cmd, name, "ok", "", free_i, <<>>)

\* cmd_mkdir
Mkdir(name) ==
    /\ pc = "running"
    /\ \E opens \in BOOLEAN :
          LET r == dir_find(fs, cwd, name, opens)
              free_i == find_free_inode(inode_table)
          IN  IF r.found = 1
              THEN /\ last' = Line("mkdir", name, "exists", "mkdir: already exists", -1, <<>>)
                   /\ UNCHANGED <<inode_table, fs, created>>
              ELSE IF free_i < 0
              THEN /\ last' = Line("mkdir", name, "nofree", "mkdir: no free inodes", -1, <<>>)
                   /\ UNCHANGED <<inode_table, fs, created>>
              ELSE \E creates \in BOOLEAN :
                     Commit("mkdir", name, free_i, TYPE_D,
                            create_dir_inode(fs, free_i, cwd, creates))
    /\ UNCHANGED <<pc, exit_code, cwd, disk, disk0, nsaves, loaded>>

\* cmd_touch
Touch(name) ==
    /\ pc = "running"
    /\ \E opens \in BOOLEAN :
          LET r == dir_find(fs, cwd, name, opens)
              free_i == find_free_inode(inode_table)
          IN  IF r.found = 1
              THEN /\ last' = Line("touch", name, "exists", "", -1, <<>>)
                   /\ UNCHANGED <<inode_table, fs, created>>
              ELSE IF free_i < 0
              THEN /\ last' = Line("touch", name, "nofree", "touch: no free inodes", -1, <<>>)
                   /\ UNCHANGED <<inode_table, fs, created>>
              ELSE \E creates \in BOOLEAN :
                     Commit("touch", name, free_i, TYPE_F,
                            create_file_inode(fs, free_i, name, creates))
    /\ UNCHANGED <<pc, exit_code, cwd, disk, disk0, nsaves, loaded>>

\* save_inodes_list: fopen "wb"; perror and return when it fails.
save_inodes_list(opens) ==
    IF ~opens THEN /\ disk' = disk
                   /\ nsaves' = nsaves
    ELSE /\ disk' = SaveRecords(inode_table)
         /\ nsaves' = nsaves + 1

\* Mutant: "exit" with an extra token still saves the table.
Invalid_ExitSaves(kind) ==
    /\ pc = "running"
    /\ last' = Line("invalid", <<>>, kind,
                    IF kind = "empty" THEN "" ELSE "Invalid command", -1, <<>>)
    /\ IF kind = "exit extra" THEN save_inodes_list(TRUE)
       ELSE UNCHANGED <<disk, nsaves>>
    /\ UNCHANGED <<pc, exit_code, inode_table, cwd, fs, disk0, loaded, created>>

\* Mutant: "exit" with an extra token ends the session.
Invalid_ExitTerminates(kind) ==
    /\ pc = "running"
    /\ last' = Line("invalid", <<>>, kind,
                    IF kind = "empty" THEN "" ELSE "Invalid command", -1, <<>>)
    /\ IF kind = "exit extra" THEN pc' = "exited" /\ exit_code' = 0
       ELSE UNCHANGED <<pc, exit_code>>
    /\ UNCHANGED <<inode_table, cwd, fs, disk, disk0, nsaves, loaded, created>>

\* main's dispatch, the lines it only answers with "Invalid command": an
\* unknown command, a missing argument, an extra token (exit with an extra
\* token included).  An empty line prints nothing.
InvalidKinds == {"empty", "unknown", "ls extra", "cd none", "cd extra", "mkdir none",
                 "mkdir extra", "touch none", "touch extra", "exit extra"}

Invalid(kind) ==
    /\ pc = "running"
    /\ last' = Line("invalid", <<>>, kind,
                    IF kind = "empty" THEN "" ELSE "Invalid command", -1, <<>>)
    /\ UNCHANGED <<pc, exit_code, inode_table, cwd, fs, disk, disk0, nsaves, loaded, created>>

\* "exit" without an extra token, or fgets returning NULL: save, break,
\* return 0.
Finish(how) ==
    /\ pc = "running"
    /\ \E opens \in BOOLEAN :
          /\ save_inodes_list(opens)
          /\ last' = Line(how, <<>>, IF opens THEN "ok" ELSE "unopenable",
                          IF opens THEN "" ELSE "inodes_list", -1, <<>>)
    /\ pc' = "exited"
    /\ exit_code' = 0
    /\ UNCHANGED <<inode_table, cwd, fs, disk0, loaded, created>>

Exit == Finish("exit")

Eof == Finish("eof")

Next ==
    \/ Startup
    \/ Ls
    \/ \E name \in Names : Cd(name)
    \/ \E name \in Names : Mkdir(name)
    \/ \E name \in Names : Touch(name)
    \/ \E kind \in InvalidKinds : Invalid(kind)
    \/ Exit
    \/ Eof

Spec == Init /\ [][Next]_vars

----------------------------------------------------------------------------
(* Saving a table and loading what was saved, on its own: the table is      *)
(* built by insertions and rollbacks in any order, saved into inodes_list,  *)
(* and the file is loaded into a zeroed table (as the next session does).   *)

InitIO ==
    /\ pc = "io"
    /\ exit_code = -1
    /\ inode_table = ZeroTable
    /\ cwd = 0
    /\ fs = [i \in Inodes |-> NoFile]
    /\ disk = <<>>
    /\ disk0 = <<>>
    /\ nsaves = 0
    /\ loaded = ZeroTable
    /\ created = <<>>
    /\ last = NoLine

IoInsert(i, ty) ==
    /\ pc = "io"
    /\ inode_table' = mark_used(inode_table, i, ty)
    /\ UNCHANGED <<pc, exit_code, cwd, fs, disk, disk0, nsaves, loaded, created, last>>

IoRollback(i) ==
    /\ pc = "io"
    /\ inode_table' = Rollback(inode_table, i)
    /\ UNCHANGED <<pc, exit_code, cwd, fs, disk, disk0, nsaves, loaded, created, last>>

IoSave ==
    /\ pc = "io"
    /\ save_inodes_list(TRUE)
    /\ pc' = "io_saved"
    /\ UNCHANGED <<exit_code, inode_table, cwd, fs, disk0, loaded, created, last>>

IoLoad ==
    /\ pc = "io_saved"
    /\ loaded' = LoadRecords(ZeroTable, disk)
    /\ pc' = "io_loaded"
    /\ UNCHANGED <<exit_code, inode_table, cwd, fs, disk, disk0, nsaves, created, last>>

NextIO ==
    \/ \E i \in Inodes, ty \in {TYPE_D, TYPE_F} : IoInsert(i, ty)
    \/ \E i \in Inodes : IoRollback(i)
    \/ IoSave
    \/ IoLoad

SpecIO == InitIO /\ [][NextIO]_vars

----------------------------------------------------------------------------
(* load_inodes_list on its own: every inodes_list file of at most MaxRecs   *)
(* records, each with an index in or just past the table and a type byte    *)
(* that is 'd', 'f' or neither, with or without a trailing half record,     *)
(* loaded into a zeroed table.                                              *)

MaxRecs == 3

LoadRecordSet == (0 .. MAX_INODES) \X {TYPE_D, TYPE_F, TYPE_X}

LoadInputs ==
    {Flatten(recs) \o tail :
        recs \in UNION {[1 .. n -> LoadRecordSet] : n \in 0 .. MaxRecs},
        tail \in {<<>>, <<0>>}}

InitLoad ==
    /\ pc = "load"
    /\ exit_code = -1
    /\ inode_table = ZeroTable
    /\ cwd = 0
    /\ fs = [i \in Inodes |-> NoFile]
    /\ disk \in LoadInputs
    /\ disk0 = disk
    /\ nsaves = 0
    /\ loaded = ZeroTable
    /\ created = <<>>
    /\ last = NoLine

\* main, lines 321-322: memset, load_inodes_list.
Load ==
    /\ pc = "load"
    /\ loaded' = LoadRecords(ZeroTable, disk)
    /\ pc' = "load_done"
    /\ UNCHANGED <<exit_code, inode_table, cwd, fs, disk, disk0, nsaves, created, last>>

NextLoad == Load

SpecLoad == InitLoad /\ [][NextLoad]_vars

----------------------------------------------------------------------------
(* What the claims speak of *)

\* name has an entry in directory dir of the storage root f (whether or not
\* a given fopen of it succeeds).
Entries(f, dir) == IF f[dir].exists THEN ReadDir(f[dir].data) ELSE <<>>

Matches(f, dir, name) ==
    {k \in 1 .. Len(Entries(f, dir)) : Entries(f, dir)[k].name = make_name32(name)}

HasEntry(f, dir, name) == Matches(f, dir, name) # {}

FirstMatch(f, dir, name) == Entries(f, dir)[Min(Matches(f, dir, name))]

Running == pc \in {"running", "exited"}

\* The <<index, type>> pairs of the slots the session's mkdir and touch filled.
CreatedPairs == {<<c[1], c[2]>> : c \in Range(created)}

Creation == last.cmd \in {"mkdir", "touch"}

RolledBack == Creation /\ last.step \in {"create_failed", "append_failed"}

SameState ==
    /\ UsedPairs(inode_table) = UsedPairs(last.pre_table)
    /\ cwd = last.pre_cwd
    /\ fs = last.pre_fs

\* The records of an inodes_list file, read two cells at a time.
TableRecords(cells) ==
    [k \in 1 .. (Len(cells) \div 2) |-> <<cells[2 * k - 1], cells[2 * k]>>]

----------------------------------------------------------------------------
(* C1 *)

\* C1: a mkdir or touch that allocated a slot and then failed to create the
\* new inode's backing file, or to append the entry to cwd's file, ends with
\* that slot free, and with the same used inodes (and types) as before it.
C1_RollbackFreesSlot ==
    RolledBack =>
        /\ last.free_i \in Inodes
        /\ last.pre_table[last.free_i].used = 0
        /\ inode_table[last.free_i].used = 0
        /\ UsedPairs(inode_table) = UsedPairs(last.pre_table)

C1_Witness ==
    /\ last.cmd = "mkdir"
    /\ last.step = "append_failed"
    /\ last.free_i = 1
    /\ last.pre_fs[1] # fs[1]

----------------------------------------------------------------------------
(* C2 *)

FailedLine ==
    \/ last.cmd = "invalid" /\ last.step # "empty"
    \/ last.cmd = "cd" /\ last.step \in {"nosuch", "notdir"}
    \/ last.cmd = "mkdir" /\ last.step = "exists"
    \/ Creation /\ last.step = "nofree"
    \/ RolledBack
    \/ last.cmd \in {"ls", "exit", "eof"} /\ last.step = "unopenable"

\* C2: a command that failed recoverably leaves the inode table, cwd and
\* every backing file as they were before it.
C2_FailureChangesNothing == FailedLine => SameState

----------------------------------------------------------------------------
(* C3 *)

UniqueNames(f, dir) ==
    \A j, k \in 1 .. Len(Entries(f, dir)) :
        Entries(f, dir)[j].name = Entries(f, dir)[k].name => j = k

\* C3: no file of a used directory inode holds two entries with the same
\* NAME_LEN-byte name, in any state of a session (every storage root the
\* session starts from satisfies this).
C3_NamesUnique ==
    Running => \A dir \in Inodes : IsDir(inode_table, dir) => UniqueNames(fs, dir)

----------------------------------------------------------------------------
(* C4 *)

\* C4: touch of a name that has an entry in cwd changes nothing and prints
\* nothing, so that the name keeps exactly one entry.
C4_TouchIdempotent ==
    (last.cmd = "touch" /\ HasEntry(last.pre_fs, last.pre_cwd, last.name)) =>
        /\ SameState
        /\ last.diag = ""
        /\ Cardinality(Matches(fs, cwd, last.name))
             = Cardinality(Matches(last.pre_fs, last.pre_cwd, last.name))

----------------------------------------------------------------------------
(* C5 *)

\* What ls prints of a directory file that it can open.
Listing(f, dir) ==
    [k \in 1 .. Len(Entries(f, dir)) |->
        <<Entries(f, dir)[k].inode, Trimmed(Entries(f, dir)[k].name)>>]

MkdirDone == last.cmd = "mkdir" /\ last.step = "ok"

\* After a mkdir that ran to its end, the new inode's file is exactly the
\* records (n, ".") and (cwd, ".."), whatever a file of that name held before.
C5_SelfLinks ==
    MkdirDone =>
        /\ fs[last.free_i].exists
        /\ Len(fs[last.free_i].data) = 2 * RecLen
        /\ Entries(fs, last.free_i)
             = <<[inode |-> last.free_i, name |-> make_name32(Dot)],
                 [inode |-> last.pre_cwd, name |-> make_name32(DotDot)]>>

\* A cd of the same name right after that mkdir, when it changes directory,
\* enters the new inode, and an ls there lists the two self-links only.
C5_CdThenLs ==
    (/\ MkdirDone
     /\ last'.cmd = "cd"
     /\ last'.name = last.name
     /\ last'.step = "ok")
        => /\ cwd' = last.free_i
           /\ Listing(fs', cwd') = <<<<last.free_i, Dot>>, <<cwd, DotDot>>>>

\* C5: after a successful mkdir d with cwd = p that allocated inode n, the
\* file of n holds exactly (n, ".") then (p, ".."), and cd d followed by ls
\* lists exactly these two entries.
C5_MkdirSelfLinksAndListing == [](C5_SelfLinks) /\ [][C5_CdThenLs]_vars

----------------------------------------------------------------------------
(* C6 *)

NotADirectory(t, i) == i >= MAX_INODES \/ t[i].used = 0 \/ t[i].type # TYPE_D

\* C6: cd leaves cwd unchanged with "no such directory" when the name has no
\* entry in cwd, and with "not a directory" when its first entry refers to an
\* inode that is out of range, free or a file; cwd changes only to the used
\* directory inode the first entry refers to.
C6_CdFailureModes ==
    last.cmd = "cd" =>
        LET has == HasEntry(last.pre_fs, last.pre_cwd, last.name)
            target == FirstMatch(last.pre_fs, last.pre_cwd, last.name).inode
        IN  /\ ~has => cwd = last.pre_cwd /\ last.diag = "cd: no such directory"
            /\ (has /\ NotADirectory(last.pre_table, target))
                  => cwd = last.pre_cwd /\ last.diag = "cd: not a directory"
            /\ cwd # last.pre_cwd
                  => has /\ ~NotADirectory(last.pre_table, target) /\ cwd = target

----------------------------------------------------------------------------
(* C7 *)

TableFull(t) == \A i \in Inodes : t[i].used = 1

\* C7: with every slot used, mkdir or touch of a name that has no entry in
\* cwd fails with "no free inodes", and leaves every slot and every backing
\* file as it was.
C7_Exhaustion ==
    (/\ Creation
     /\ TableFull(last.pre_table)
     /\ ~HasEntry(last.pre_fs, last.pre_cwd, last.name))
        => /\ last.step = "nofree"
           /\ last.diag = (IF last.cmd = "mkdir" THEN "mkdir: no free inodes"
                           ELSE "touch: no free inodes")
           /\ inode_table = last.pre_table
           /\ UsedCount(inode_table) = MAX_INODES
           /\ fs = last.pre_fs

C7_Witness ==
    /\ last.cmd = "mkdir"
    /\ last.step = "nofree"
    /\ ~HasEntry(last.pre_fs, last.pre_cwd, last.name)
    /\ Len(created) = 2

----------------------------------------------------------------------------
(* C8 *)

\* C8 as stated: inodes_list keeps its content while commands are processed
\* and is written exactly once by the end of the session.
C8_WrittenExactlyOnce ==
    /\ pc \in {"start", "running", "aborted"} => disk = disk0 /\ nsaves = 0
    /\ pc = "exited" => nsaves = 1

\* C8 amended: inodes_list keeps its content while commands are processed; a
\* session that ends by exit or end of input writes it once if it can be
\* opened for writing, and otherwise leaves it as it was.
C8_WrittenOnlyAtEnd ==
    /\ pc \in {"start", "running", "aborted"} => disk = disk0 /\ nsaves = 0
    /\ pc = "exited" =>
          /\ last.cmd \in {"exit", "eof"}
          /\ IF last.step = "ok" THEN nsaves = 1
             ELSE nsaves = 0 /\ disk = disk0

C8_Witness ==
    /\ pc = "exited"
    /\ last.cmd = "exit"
    /\ Len(created) = 2
    /\ nsaves = 1
    /\ disk # disk0

----------------------------------------------------------------------------
(* C9 *)

\* C9: when the session ends (exit or end of input alike) and inodes_list
\* can be opened, the file holds one record per used slot, indexes ascending,
\* and its records are the used inodes loaded at startup plus one per mkdir
\* (directory) or touch (file) that ran to its end.
C9_PersistedTable ==
    (pc = "exited" /\ last.step = "ok") =>
        LET recs == TableRecords(disk)
        IN  /\ Len(disk) = 2 * Len(recs)
            /\ \A j, k \in 1 .. Len(recs) : j < k => recs[j][1] < recs[k][1]
            /\ Range(recs) = UsedPairs(inode_table)
            /\ Range(recs) = UsedPairs(loaded) \cup CreatedPairs
            /\ Len(recs) = Cardinality(UsedPairs(loaded)) + Len(created)

\* The scenario of the specification: a root holding only inode 0, then
\* mkdir, cd into it, touch, exit: three records.
C9_Witness ==
    /\ pc = "exited"
    /\ last.step = "ok"
    /\ disk0 = RootOnly
    /\ [k \in 1 .. Len(created) |-> <<created[k][1], created[k][2]>>]
           = <<<<1, TYPE_D>>, <<2, TYPE_F>>>>
    /\ cwd = 1
    /\ Entries(fs, 1)[3].inode = 2
    /\ disk = <<0, TYPE_D, 1, TYPE_D, 2, TYPE_F>>

----------------------------------------------------------------------------
(* C10 *)

\* C10: loading a saved table into a zeroed table gives back the same used
\* slots with the same types, and every other slot free.
C10_RoundTrip ==
    pc = "io_loaded" =>
        /\ UsedPairs(loaded) = UsedPairs(inode_table)
        /\ \A i \in Inodes : inode_table[i].used = 0 => loaded[i] = FreeSlot

C10_Witness ==
    /\ pc = "io_loaded"
    /\ inode_table[0] = [used |-> 0, type |-> TYPE_D]
    /\ inode_table[1] = [used |-> 1, type |-> TYPE_F]
    /\ inode_table[MAX_INODES - 1] = [used |-> 1, type |-> TYPE_D]

----------------------------------------------------------------------------
(* C11 *)

\* C11: a malformed line (empty, unknown command, ls or exit with an extra
\* token, cd, mkdir or touch with no argument or more than one) leaves cwd,
\* the inode table, every backing file and inodes_list as they were, and the
\* session goes on: nothing was saved and the program has not ended.  Only
\* the empty line prints nothing.
C11_InvalidLineNoEffect ==
    last.cmd = "invalid" =>
        /\ last.step \in InvalidKinds
        /\ inode_table = last.pre_table
        /\ cwd = last.pre_cwd
        /\ fs = last.pre_fs
        /\ disk = disk0
        /\ nsaves = 0
        /\ pc = "running"
        /\ exit_code = -1
        /\ (last.diag = "") = (last.step = "empty")

\* "exit now" typed after a mkdir and a cd into the new directory: the table
\* in memory differs from inodes_list and stays unsaved.
C11_Witness ==
    /\ last.cmd = "invalid"
    /\ last.step = "exit extra"
    /\ Len(created) = 1
    /\ cwd = created[1][1]
    /\ UsedPairs(inode_table) # UsedPairs(loaded)

----------------------------------------------------------------------------
(* C12 *)

\* The records of an inodes_list file that load_inodes_list accepts for
\* slot 0.
RootRecords(cells) ==
    {k \in 1 .. Len(TableRecords(cells)) :
        /\ TableRecords(cells)[k][1] = 0
        /\ TableRecords(cells)[k][2] \in {TYPE_D, TYPE_F}}

\* C12: when, after the load, slot 0 is not a used directory (no valid record
\* for index 0 included), the program ends with exit code 1 before any
\* command, with inodes_list and every backing file as they were; otherwise
\* the session starts with cwd = 0.
C12_FatalStartup ==
    pc # "start" =>
        /\ IsDir(loaded, 0) =>
              /\ Running
              /\ last = NoLine => cwd = 0 /\ pc = "running" /\ exit_code = -1
        /\ (~IsDir(loaded, 0) \/ RootRecords(disk0) = {}) =>
              /\ pc = "aborted"
              /\ exit_code = 1
              /\ last = NoLine
              /\ created = <<>>
              /\ disk = disk0
              /\ nsaves = 0
              /\ \E root \in InitRoots :
                    /\ disk0 = root[1]
                    /\ fs = InitFs(root[2], LoadRecords(ZeroTable, root[1]))

\* Slot 0 was loaded as a directory and then overwritten by a file record.
C12_Witness ==
    /\ pc = "aborted"
    /\ disk0 = RootOverwritten
    /\ inode_table[0] = [used |-> 1, type |-> TYPE_F]
    /\ fs[0].exists

----------------------------------------------------------------------------
(* C13 *)

\* One command of a started session keeps every used slot used with its type.
C13_Step ==
    pc = "running" =>
        /\ \A i \in Inodes :
              inode_table[i].used = 1 =>
                  /\ inode_table'[i].used = 1
                  /\ inode_table'[i].type = inode_table[i].type
        /\ UsedCount(inode_table') >= UsedCount(inode_table)

\* C13: no command frees or retypes a used inode: a slot used at the end of
\* a command (or at session start) is used with the same type after every
\* later command, slot 0 is a used directory in every state of a started
\* session, and the number of used slots never decreases.
C13_NeverFreedOrRetyped ==
    /\ [](Running => IsDir(inode_table, 0))
    /\ [][C13_Step]_vars

\* A rollback right after a mkdir and a cd into the new directory.
C13_Witness ==
    /\ RolledBack
    /\ Len(created) = 1
    /\ created[1][2] = TYPE_D
    /\ cwd = created[1][1]
    /\ inode_table[last.free_i].used = 0

----------------------------------------------------------------------------
(* C14 *)

\* The NAME_LEN bytes a name is stored as and looked up by: its first
\* NAME_LEN bytes, then NUL up to NAME_LEN.
Encoded(name) == [k \in 1 .. NAME_LEN |-> IF k <= Len(name) THEN name[k] ELSE NUL]

\* The last command looked its argument up in cwd's file and got a match.
LookupMatched ==
    \/ last.cmd = "cd" /\ last.step # "nosuch"
    \/ Creation /\ last.step = "exists"

\* A mkdir or touch that ran to its end stored the encoded name.
C14_StoredName ==
    (Creation /\ last.step = "ok") =>
        LET ents == Entries(fs, last.pre_cwd)
        IN  /\ Len(ents) = Len(Entries(last.pre_fs, last.pre_cwd)) + 1
            /\ ents[Len(ents)] = [inode |-> last.free_i, name |-> Encoded(last.name)]

\* C14: the name mkdir or touch stores is the first NAME_LEN bytes of the
\* requested name, zero-padded, and a later lookup (cd, the existence check
\* of mkdir and touch) matches exactly when the encoding of its query equals
\* the stored bytes of an entry: names equal in their first NAME_LEN bytes
\* are one name, and no other query finds the entry.
C14_NameTruncation ==
    /\ C14_StoredName
    /\ last.cmd \in {"cd", "mkdir", "touch"} =>
          (LookupMatched <=>
              \E k \in 1 .. Len(Entries(last.pre_fs, last.pre_cwd)) :
                  Entries(last.pre_fs, last.pre_cwd)[k].name = Encoded(last.name))

----------------------------------------------------------------------------
(* C15 *)

IsPrefix(a, b) == Len(a) <= Len(b) /\ SubSeq(b, 1, Len(a)) = a

\* C15: directory files only grow at their end: the file of every inode that
\* is a used directory before a command is a prefix of what it is after; a
\* mkdir or touch that ran to its end extends cwd's file by exactly one
\* record (new inode, encoded name) and leaves the file of every other used
\* directory alone; ls and cd change no file; ls prints the records in the
\* order they were appended.
C15_AppendOnly ==
    last.cmd # "none" =>
        /\ \A i \in Inodes :
              IsDir(last.pre_table, i) =>
                  /\ last.pre_fs[i].exists => fs[i].exists
                  /\ IsPrefix(last.pre_fs[i].data, fs[i].data)
        /\ (Creation /\ last.step = "ok") =>
              /\ fs[last.pre_cwd].data =
                     last.pre_fs[last.pre_cwd].data \o <<last.free_i>> \o Encoded(last.name)
              /\ \A i \in Inodes :
                    (IsDir(last.pre_table, i) /\ i # last.pre_cwd) => fs[i] = last.pre_fs[i]
        /\ last.cmd \in {"ls", "cd"} => fs = last.pre_fs
        /\ (last.cmd = "ls" /\ last.step = "ok") =>
              /\ Len(last.out) = Len(Entries(fs, cwd))
              /\ \A k \in 1 .. Len(last.out) : last.out[k][1] = Entries(fs, cwd)[k].inode

\* A touch inside a directory the session made: the directory's file held
\* its two self-links, the root's file is another used directory's.
C15_Witness ==
    /\ last.cmd = "touch"
    /\ last.step = "ok"
    /\ last.pre_cwd # 0
    /\ Len(Entries(last.pre_fs, last.pre_cwd)) = 2
    /\ Len(Entries(fs, last.pre_cwd)) = 3
    /\ Len(Entries(fs, 0)) >= 1

----------------------------------------------------------------------------
(* C16 *)

\* C16: a mkdir or touch that ran to its end took the smallest slot that
\* was free just before it, marked exactly that slot used with its type
\* ('d' for mkdir, 'f' for touch) and left every other slot as it was.
C16_LowestFree ==
    (Creation /\ last.step = "ok") =>
        /\ last.free_i \in Inodes
        /\ last.pre_table[last.free_i].used = 0
        /\ \A j \in Inodes : last.pre_table[j].used = 0 => last.free_i <= j
        /\ inode_table =
              [last.pre_table EXCEPT ![last.free_i] =
                  [used |-> 1, type |-> IF last.cmd = "mkdir" THEN TYPE_D ELSE TYPE_F]]

\* Two free slots, filled lowest first by a mkdir and then a touch.
C16_Witness ==
    /\ last.cmd = "touch"
    /\ last.step = "ok"
    /\ UsedCount(loaded) = 1
    /\ Len(created) = 2
    /\ created[1][1] = 1
    /\ last.free_i = 2

\* A free slot below a used one is taken.
C16_WitnessGap ==
    /\ Creation
    /\ last.step = "ok"
    /\ last.free_i = 1
    /\ last.pre_table[MAX_INODES - 1].used = 1

----------------------------------------------------------------------------
(* C18 *)

\* C18: in every state of a started session cwd is a slot of the table,
\* used, of type directory; a rollback never frees it.
C18_CwdValid ==
    Running =>
        /\ cwd \in Inodes
        /\ inode_table[cwd].used = 1
        /\ inode_table[cwd].type = TYPE_D

\* A rollback while cwd is a directory the session made.
C18_Witness ==
    /\ RolledBack
    /\ cwd # 0
    /\ cwd \in {c[1] : c \in Range(created)}
    /\ inode_table[last.free_i].used = 0

----------------------------------------------------------------------------
(* C17 *)

\* The records of an inodes_list file that the load accepts for slot i: the
\* index is i and the type byte is 'd' or 'f'.
ValidRecords(cells, i) ==
    {k \in 1 .. Len(TableRecords(cells)) :
        /\ TableRecords(cells)[k][1] = i
        /\ TableRecords(cells)[k][2] \in {TYPE_D, TYPE_F}}

\* C17: after the load of any sequence of records into a zeroed table, slot
\* i is used exactly when some record has index i (below MAX_INODES) and a
\* recognized type, and its type is that of the last such record; a record
\* with an index out of range or an unrecognized type changes no slot (it
\* does not undo an earlier valid record of the same index) and does not
\* stop the load of the records after it.
C17_LoadSemantics ==
    pc = "load_done" =>
        \A i \in Inodes :
            LET valid == ValidRecords(disk, i)
            IN  IF valid = {}
                THEN loaded[i] = FreeSlot
                ELSE loaded[i] =
                        [used |-> 1,
                         type |-> TableRecords(disk)[CHOOSE k \in valid :
                                                        \A j \in valid : j <= k][2]]

\* A valid record for slot 0, an invalid record for the same slot, then a
\* valid record for slot 1.
C17_Witness ==
    /\ pc = "load_done"
    /\ disk = <<0, TYPE_D, 0, TYPE_X, 1, TYPE_F>>
    /\ loaded[0] = [used |-> 1, type |-> TYPE_D]
    /\ loaded[1] = [used |-> 1, type |-> TYPE_F]

----------------------------------------------------------------------------
(* C19 *)

\* C19: every entry a mkdir or touch of the session appended names, in every
\* later state, an inode that is used with the type of the command and whose
\* backing file exists; and every slot the session filled is named by
\* exactly one of the entries the session appended, which lies in the file
\* of the directory that was cwd at the time ("." and ".." apart).
C19_ReferentialIntegrity ==
    Running =>
        /\ \A k \in 1 .. Len(created) :
              LET c == created[k]
              IN  /\ inode_table[c[1]] = [used |-> 1, type |-> c[2]]
                  /\ fs[c[1]].exists
                  /\ IsDir(inode_table, c[3])
                  /\ c[4] \in 1 .. Len(Entries(fs, c[3]))
                  /\ Entries(fs, c[3])[c[4]].inode = c[1]
        /\ \A j, k \in 1 .. Len(created) :
              j # k => <<created[j][3], created[j][4]>> # <<created[k][3], created[k][4]>>
        /\ \A i \in Inodes :
              (inode_table[i].used = 1 /\ loaded[i].used = 0 /\ ~RolledBack) =>
                  Cardinality({k \in 1 .. Len(created) : created[k][1] = i}) = 1
        /\ RolledBack =>
              Cardinality({k \in 1 .. Len(created) : created[k][1] = last.free_i}) = 0

\* A directory made in the root, a file made inside it, and the session
\* back in the root.
C19_Witness ==
    /\ pc = "running"
    /\ Len(created) = 2
    /\ created[1][2] = TYPE_D
    /\ created[1][3] = 0
    /\ created[2][2] = TYPE_F
    /\ created[2][3] = created[1][1]
    /\ cwd = 0
    /\ last.cmd = "cd"

----------------------------------------------------------------------------
(* C20 *)

\* The directories the session's mkdir made.
MadeDirs == {c \in Range(created) : c[2] = TYPE_D}

\* The last command was "cd d" typed in the directory p in which a mkdir of
\* the session had made d.
CdIntoMade ==
    /\ last.cmd = "cd"
    /\ \E c \in MadeDirs :
          /\ c[3] = last.pre_cwd
          /\ Entries(fs, c[3])[c[4]].name = Encoded(last.name)

\* "cd d" then "cd .." from p ends in p with table and files as before.
C20_ThereAndBack ==
    (CdIntoMade /\ last'.cmd = "cd" /\ last'.name = DotDot) =>
        /\ cwd' = last.pre_cwd
        /\ inode_table' = last.pre_table
        /\ fs' = last.pre_fs

\* "cd ." in a directory made by mkdir: cwd unchanged, no diagnostic.
C20_CdDot ==
    (last.cmd = "cd" /\ last.name = Dot /\ \E c \in MadeDirs : c[1] = last.pre_cwd) =>
        /\ cwd = last.pre_cwd
        /\ last.diag = ""

CdEnteredMade ==
    /\ last.cmd = "cd"
    /\ last.step = "ok"
    /\ \E c \in MadeDirs : c[1] = cwd /\ c[3] = last.pre_cwd

C20_BackFromMade ==
    (CdEnteredMade /\ last'.cmd = "cd" /\ last'.name = DotDot) =>
        /\ inode_table' = last.pre_table
        /\ fs' = last.pre_fs
        /\ IF last'.opened
           THEN cwd' = last.pre_cwd /\ last'.diag = ""
           ELSE cwd' = cwd /\ last'.diag # ""

C20_CdDotWhenOpened ==
    (last.cmd = "cd" /\ last.name = Dot /\ \E c \in MadeDirs : c[1] = last.pre_cwd) =>
        /\ cwd = last.pre_cwd
        /\ inode_table = last.pre_table
        /\ fs = last.pre_fs
        /\ IF last.opened
           THEN last.diag = ""
           ELSE last.diag # ""

====
